---- MODULE Spec2Model ----
(***************************************************************************)
(* Model of ocr_extract.py: the batched OCR pipeline run_pipeline, the     *)
(* per-page OCR stage ocr_page, the correction stage correct_text and the  *)
(* page splitter split_vertical.                                           *)
(*                                                                         *)
(* Texts are sequences of characters.  A remote call (generate_content)    *)
(* is an input: each attempt draws its response from a small set.          *)
(***************************************************************************)
EXTENDS Integers, Sequences, FiniteSets, TLC

(***************************************************************************)
(* Bounds of the model.                                                    *)
(***************************************************************************)
MaxPages == 3          \* total_pages ranges over 0..MaxPages
MaxBatch == 2          \* batch_size ranges over 1..MaxBatch
MaxWorkers == 2        \* OCR_WORKERS ranges over 1..MaxWorkers
MaxStart == 2          \* start_page is 1 or MaxStart
MaxRetriesArg == 3     \* max_retries ranges over 1..MaxRetriesArg in SpecRetry
MaxLabelIdx == 10      \* idx ranges over 1..MaxLabelIdx in SpecPure
MaxLabelStart == 6     \* start_page ranges over 1..MaxLabelStart in SpecPure

(***************************************************************************)
(* Program constants.                                                      *)
(***************************************************************************)
DefaultMaxRetries == 3 \* ocr_page(..., max_retries=3), correct_text(..., max_retries=3)
BackoffUnit == 10      \* wait_time = (attempt + 1) * 10

(***************************************************************************)
(* Texts.                                                                  *)
(***************************************************************************)
NL == "\n"
Whitespace == {" ", NL}

RECURSIVE LStrip(_)
LStrip(s) ==
    IF s # <<>> /\ Head(s) \in Whitespace THEN LStrip(Tail(s)) ELSE s

RECURSIVE RStrip(_)
RStrip(s) ==
    IF s # <<>> /\ s[Len(s)] \in Whitespace
    THEN RStrip(SubSeq(s, 1, Len(s) - 1))
    ELSE s

\* str.strip()
Strip(s) == RStrip(LStrip(s))

\* "\n".join(out)
RECURSIVE JoinNL(_)
JoinNL(out) ==
    IF out = <<>> THEN <<>>
    ELSE IF Len(out) = 1 THEN out[1]
    ELSE out[1] \o <<NL>> \o JoinNL(Tail(out))

(***************************************************************************)
(* split_vertical.  An image is its size <<w, h>>; a crop is the box       *)
(* <<left, upper, right, lower>> of the page it was cut from.              *)
(*                                                                         *)
(* The test h > w * 1.4 is a comparison with a double.  The double 1.4 is  *)
(* 1.4 - 0.4 * 2^-52, so w * 1.4 is exact enough to order it against any   *)
(* integer h other than 1.4 * w itself; when w = 5k and h = 7k the product *)
(* 7k - k * 2^-51 rounds to the double below 7k exactly when a power of    *)
(* two lies strictly between 7k and 8k (e.g. 45 * 1.4 = 62.99999999999999).*)
(***************************************************************************)
RECURSIVE Pow2Above(_, _)
Pow2Above(p, x) == IF p > x THEN p ELSE Pow2Above(2 * p, x)

\* h > w * 1.4 in IEEE double arithmetic
TallerThan14(w, h) ==
    IF w % 5 = 0 /\ h = 7 * (w \div 5)
    THEN Pow2Above(1, h) < 8 * (w \div 5)
    ELSE 10 * h > 14 * w

split_vertical(page) ==
    LET w == page[1]
        h == page[2]
        mid == h \div 2
    IN  IF TallerThan14(w, h)
        THEN << <<0, 0, w, mid>>, <<0, mid, w, h>> >>
        ELSE << <<0, 0, w, h>> >>

(***************************************************************************)
(* Remote responses.  One attempt of model.generate_content ends in one of *)
(*   ok      : a response with candidates; text is the joined part texts   *)
(*             (OCR) or r.text (correction)                                *)
(*   empty   : a response without candidates                               *)
(*   index   : IndexError (OCR) or IndexError/AttributeError (correction)  *)
(*   timeout : an exception whose message has "DeadlineExceeded" or "504"  *)
(*   other   : any other exception                                         *)
(***************************************************************************)
Ok(t) == [kind |-> "ok", text |-> t]
Fail(k) == [kind |-> k, text |-> <<>>]
FailKinds == {"empty", "index", "timeout", "other"}

\* a wait that does not grow with the attempt
Backoff_Flat(attempt) == BackoffUnit

\* wait_time = (attempt + 1) * 10
Backoff(attempt) == (attempt + 1) * BackoffUnit

(***************************************************************************)
(* ocr_page.  The local state of one call: the chunks, the index c of the  *)
(* chunk being sent, the attempt index of its retry loop, the list out,    *)
(* and st: "run" (in the loops), "ret" (returned result) or "raise"        *)
(* (raised exc).  wait is the time.sleep of the last attempt, 0 if none.   *)
(***************************************************************************)
NoOcr ==
    [chunks |-> <<>>, c |-> 0, attempt |-> 0, out |-> <<>>, st |-> "idle",
     exc |-> "none", wait |-> 0, result |-> <<>>]

\* chunks = split_vertical(img); out = []
OcrBegin(img) ==
    [NoOcr EXCEPT !.chunks = split_vertical(img), !.c = 1, !.st = "run"]

\* OcrChunkDone for a retry loop whose attempt counter is kept over the chunks
\* of the page
OcrChunkDone_KeepAttempt(o, text) ==
    LET out2 == Append(o.out, text)
    IN  IF o.c = Len(o.chunks)
        THEN [o EXCEPT !.out = out2, !.st = "ret", !.result = JoinNL(out2),
                       !.wait = 0]
        ELSE [o EXCEPT !.out = out2, !.c = o.c + 1, !.wait = 0]

\* out.append(text); break -- then the next chunk, or return "\n".join(out)
OcrChunkDone(o, text) ==
    LET out2 == Append(o.out, text)
    IN  IF o.c = Len(o.chunks)
        THEN [o EXCEPT !.out = out2, !.st = "ret", !.result = JoinNL(out2),
                       !.wait = 0]
        ELSE [o EXCEPT !.out = out2, !.c = o.c + 1, !.attempt = 0, !.wait = 0]

\* time.sleep(wait_time), then the next iteration of the retry loop
OcrRetry(o) ==
    [o EXCEPT !.attempt = o.attempt + 1, !.wait = Backoff(o.attempt)]

OcrRaise(o, e) == [o EXCEPT !.st = "raise", !.exc = e, !.wait = 0]

\* OcrStep with "attempt < max_retries" for "attempt < max_retries - 1"
OcrStep_ExtraAttempt(o, r, max_retries) ==
    LET last == ~(o.attempt < max_retries)
    IN  CASE r.kind = "ok" -> OcrChunkDone(o, Strip(r.text))
          [] r.kind \in {"empty", "index"} ->
                IF last THEN OcrChunkDone(o, <<>>) ELSE OcrRetry(o)
          [] r.kind = "timeout" ->
                IF last THEN OcrRaise(o, "timeout") ELSE OcrRetry(o)
          [] OTHER -> OcrRaise(o, "other")

\* OcrStep with every exception retried like a timeout
OcrStep_RetryOther(o, r, max_retries) ==
    LET last == ~(o.attempt < max_retries - 1)
    IN  CASE r.kind = "ok" -> OcrChunkDone(o, Strip(r.text))
          [] r.kind \in {"empty", "index"} ->
                IF last THEN OcrChunkDone(o, <<>>) ELSE OcrRetry(o)
          [] OTHER ->
                IF last THEN OcrRaise(o, r.kind) ELSE OcrRetry(o)

\* OcrStep whose attempt counter counts the empty responses only
OcrStep_TimeoutUncounted(o, r, max_retries) ==
    LET last == ~(o.attempt < max_retries - 1)
    IN  CASE r.kind = "ok" -> OcrChunkDone(o, Strip(r.text))
          [] r.kind \in {"empty", "index"} ->
                IF last THEN OcrChunkDone(o, <<>>) ELSE OcrRetry(o)
          [] r.kind = "timeout" ->
                IF last THEN OcrRaise(o, "timeout")
                ELSE [o EXCEPT !.wait = Backoff(o.attempt)]
          [] OTHER -> OcrRaise(o, "other")

\* OcrStep whose retry loop starts over after its last attempt
OcrStep_RetryForever(o, r, max_retries) ==
    LET last == ~(o.attempt < max_retries - 1)
    IN  CASE r.kind = "ok" -> OcrChunkDone(o, Strip(r.text))
          [] r.kind \in {"empty", "index"} ->
                IF last THEN [o EXCEPT !.attempt = 0, !.wait = 0]
                ELSE OcrRetry(o)
          [] r.kind = "timeout" ->
                IF last THEN OcrRaise(o, "timeout") ELSE OcrRetry(o)
          [] OTHER -> OcrRaise(o, "other")

\* one iteration of "for attempt in range(max_retries)" with response r
OcrStep(o, r, max_retries) ==
    LET last == ~(o.attempt < max_retries - 1)
    IN  CASE r.kind = "ok" -> OcrChunkDone(o, Strip(r.text))
          [] r.kind \in {"empty", "index"} ->
                IF last THEN OcrChunkDone(o, <<>>) ELSE OcrRetry(o)
          [] r.kind = "timeout" ->
                IF last THEN OcrRaise(o, "timeout") ELSE OcrRetry(o)
          [] OTHER -> OcrRaise(o, "other")

(***************************************************************************)
(* correct_text.  The local state of one call, as for ocr_page; last is the *)
(* kind of the response of the latest attempt.                             *)
(***************************************************************************)
NoCorr ==
    [attempt |-> 0, st |-> "idle", exc |-> "none", wait |-> 0, result |-> <<>>,
     last |-> "none"]

CorrBegin == [NoCorr EXCEPT !.st = "run"]

CorrReturn(k, text) == [k EXCEPT !.st = "ret", !.result = text, !.wait = 0]

CorrRetry(k) ==
    [k EXCEPT !.attempt = k.attempt + 1, !.wait = Backoff(k.attempt)]

CorrRaise(k, e) == [k EXCEPT !.st = "raise", !.exc = e, !.wait = 0]

\* CorrStep with the raw text returned after the last timeout
CorrStep_TimeoutFallback(k, r, raw, max_retries) ==
    LET last == ~(k.attempt < max_retries - 1)
        k1 == [k EXCEPT !.last = r.kind]
    IN  CASE r.kind = "ok" -> CorrReturn(k1, Strip(r.text))
          [] r.kind \in {"empty", "index", "timeout"} ->
                IF last THEN CorrReturn(k1, raw) ELSE CorrRetry(k1)
          [] OTHER -> CorrRaise(k1, "other")

\* CorrStep with "return raw.strip()" for "return raw"
CorrStep_StripFallback(k, r, raw, max_retries) ==
    LET last == ~(k.attempt < max_retries - 1)
        k1 == [k EXCEPT !.last = r.kind]
    IN  CASE r.kind = "ok" -> CorrReturn(k1, Strip(r.text))
          [] r.kind \in {"empty", "index"} ->
                IF last THEN CorrReturn(k1, Strip(raw)) ELSE CorrRetry(k1)
          [] r.kind = "timeout" ->
                IF last THEN CorrRaise(k1, "timeout") ELSE CorrRetry(k1)
          [] OTHER -> CorrRaise(k1, "other")

\* one iteration of "for attempt in range(max_retries)" with response r
CorrStep(k, r, raw, max_retries) ==
    LET last == ~(k.attempt < max_retries - 1)
        k1 == [k EXCEPT !.last = r.kind]
    IN  CASE r.kind = "ok" -> CorrReturn(k1, Strip(r.text))
          [] r.kind \in {"empty", "index"} ->
                IF last THEN CorrReturn(k1, raw) ELSE CorrRetry(k1)
          [] r.kind = "timeout" ->
                IF last THEN CorrRaise(k1, "timeout") ELSE CorrRetry(k1)
          [] OTHER -> CorrRaise(k1, "other")

(***************************************************************************)
(* run_pipeline: helpers.                                                  *)
(***************************************************************************)
Modes == {"one-pass", "two-pass"}

\* Label with "idx - start_page" for "idx - start_page + 1"
Label_OffByOne(idx, start) ==
    LET printed_page == idx - start
    IN  IF printed_page >= 1
        THEN [kind |-> "Page", n |-> printed_page]
        ELSE [kind |-> "FrontMatter", n |-> idx]

\* page_label of _ocr_task
Label(idx, start) ==
    LET printed_page == idx - start + 1
    IN  IF printed_page >= 1
        THEN [kind |-> "Page", n |-> printed_page]
        ELSE [kind |-> "FrontMatter", n |-> idx]

\* f"\n{'='*20} {page_label} {'='*20}\n{text}"
WithHeader(label, text) == [label |-> label, text |-> text]

\* BatchEnd without the min
BatchEnd_NoMin(bstart, bsize, total) == bstart + bsize - 1

\* batch_end = min(batch_start + batch_size - 1, total_pages)
BatchEnd(bstart, bsize, total) ==
    IF bstart + bsize - 1 < total THEN bstart + bsize - 1 ELSE total

\* the loop variable of range(1, total_pages + 1, batch_size) after bstart
RangeNext(bstart, bsize) == bstart + bsize

\* RangeHas for range(1, total_pages, batch_size)
RangeHas_OffByOne(v, total) == v < total

\* whether range(1, total_pages + 1, batch_size) yields v
RangeHas(v, total) == v < total + 1

\* batch_results.sort(key=lambda x: x[0]), by insertion
InsertByIdx(r, s) ==
    LET before == SelectSeq(s, LAMBDA x : x.idx <= r.idx)
        after == SelectSeq(s, LAMBDA x : x.idx > r.idx)
    IN  before \o <<r>> \o after

\* SortByIdx with the sort left out
SortByIdx_NoSort(s) == s

RECURSIVE SortByIdx(_)
SortByIdx(s) ==
    IF s = <<>> THEN <<>>
    ELSE InsertByIdx(s[Len(s)], SortByIdx(SubSeq(s, 1, Len(s) - 1)))

\* the page sizes of the PDFs a run is given
PageSizes == { <<600, 700>>, <<600, 1000>> }

\* what a remote call can answer in a run of the pipeline
OcrResponses == {Ok(<<"a", " ">>)} \cup {Fail(k) : k \in FailKinds}
CorrResponses == {Ok(<<"b", " ">>)} \cup {Fail(k) : k \in FailKinds}

(***************************************************************************)
(* State.                                                                  *)
(***************************************************************************)
VARIABLES
    pc,             \* where run_pipeline is
    total_pages,    \* info.get("Pages", 0)
    batch_size,     \* parameter batch_size
    mode,           \* parameter mode
    start_page,     \* parameter start_page
    api_key,        \* whether GEMINI_API_KEY is set
    workers,        \* OCR_WORKERS
    page_size,      \* the size <<w, h>> of the pages of the PDF at DPI
    models,         \* the models built: ocr_model, corr_model
    batch_start,    \* loop variable of the batch loop
    batch_end,
    batch_pages,    \* the list of images of the window (their sizes)
    heap,           \* the pages whose images are alive in memory
    tasks,          \* futures: page index -> label and state of its ocr_page
    batch_results,  \* list of (idx, page_label, raw)
    pos,            \* position of the correction loop in batch_results
    corr,           \* the correct_text call of the page at pos
    raw_pages,
    corr_pages,
    raw_file,       \* the file written from full_raw, or Absent
    corr_file,      \* the file written from full_corr, or Absent
    windows,        \* history: the windows <<batch_start, batch_end>> so far
    unordered,      \* history: this batch was collected out of page order
    ocr_called,     \* history: the OCR model has been called
    corr_called,    \* history: the correction model has been called
    call            \* a single call of ocr_page or correct_text (SpecRetry)

pipeVars ==
    <<pc, total_pages, batch_size, mode, start_page, api_key, workers,
      page_size, models,
      batch_start, batch_end, batch_pages, heap, tasks, batch_results, pos,
      corr, raw_pages, corr_pages, raw_file, corr_file, windows, unordered,
      ocr_called, corr_called>>

vars == <<pipeVars, call>>

config ==
    <<total_pages, batch_size, mode, start_page, api_key, workers, page_size>>

\* a file that was not written, and the file written from the blocks of doc
Absent == [exists |-> FALSE, blocks |-> <<>>]
Written(doc) == [exists |-> TRUE, blocks |-> doc]

\* the label of a work item that has not started
NoLabel == [kind |-> "none", n |-> 0]
NoCall == [fn |-> "none"]
NoTasks == [p \in {} |-> 0]

\* the page indexes batch_start + i of enumerate(batch_pages)
WindowPages == {batch_start + i - 1 : i \in 1..Len(batch_pages)}

Queued(ts) == {p \in DOMAIN ts : ts[p].o.st = "idle"}
Running(ts) == {p \in DOMAIN ts : ts[p].o.st = "run"}
Finished(ts) == {p \in DOMAIN ts : ts[p].o.st \in {"ret", "raise"}}
Collected == {batch_results[i].idx : i \in 1..Len(batch_results)}

\* what a Future keeps of a call of _ocr_task: its result or its exception
Future(o) ==
    CASE o.st = "ret" -> [NoOcr EXCEPT !.st = "ret", !.result = o.result]
      [] o.st = "raise" -> [NoOcr EXCEPT !.st = "raise", !.exc = o.exc]
      [] OTHER -> o

\* the work items that ended in an exception
Failed(ts) == {p \in DOMAIN ts : ts[p].o.st = "raise"}

\* WorkerFree for a pool that starts a thread for every work item
WorkerFree_Unbounded(ts, w) == TRUE

\* ThreadPoolExecutor(max_workers=OCR_WORKERS): a worker thread is free
WorkerFree(ts, w) == Cardinality(Running(ts)) < w

\* TwoPass with the mode test left out
TwoPass_Always(m) == TRUE

\* mode == "two-pass"
TwoPass(m) == m = "two-pass"

\* Released when the batch's images stay referenced
Released_Nothing(pages, bstart) == {}

\* del batch_pages; gc.collect(): the images that are freed
Released(pages, bstart) == {bstart + i - 1 : i \in 1..Len(pages)}

Init ==
    /\ pc = "start"
    /\ total_pages \in 0..MaxPages
    /\ batch_size \in 1..MaxBatch
    /\ mode \in Modes
    /\ start_page \in {1, MaxStart}
    /\ api_key \in BOOLEAN
    /\ workers \in 1..MaxWorkers
    /\ page_size \in PageSizes
    /\ models = {}
    /\ batch_start = 0
    /\ batch_end = 0
    /\ batch_pages = <<>>
    /\ heap = {}
    /\ tasks = NoTasks
    /\ batch_results = <<>>
    /\ pos = 0
    /\ corr = NoCorr
    /\ raw_pages = <<>>
    /\ corr_pages = <<>>
    /\ raw_file = Absent
    /\ corr_file = Absent
    /\ windows = <<>>
    /\ unordered = FALSE
    /\ ocr_called = FALSE
    /\ corr_called = FALSE
    /\ call = NoCall

\* a run that never takes the "no pages" exit
NoPages_Never(total) == FALSE

\* if total_pages == 0: print("Could not determine page count"); return None
NoPages(total) == total = 0

\* a run that never finds the key missing
KeyMissing_Never(key) == FALSE

\* build_model: if not api_key: raise ValueError("Missing GEMINI_API_KEY in .env")
KeyMissing(key) == ~key

(***************************************************************************)
(* run_pipeline: the scheduler.                                            *)
(***************************************************************************)
\* total_pages = info.get("Pages", 0); if total_pages == 0: return None
Analyze ==
    /\ pc = "start"
    /\ pc' = IF NoPages(total_pages) THEN "nopages" ELSE "build"
    /\ UNCHANGED <<config, models, batch_start, batch_end, batch_pages, heap,
                   tasks, batch_results, pos, corr, raw_pages, corr_pages,
                   raw_file, corr_file, windows, unordered, ocr_called,
                   corr_called, call>>

\* build_model raises ValueError without GEMINI_API_KEY; otherwise the models
\* are built and the batch loop is entered at range(1, ...)'s first value
BuildModels ==
    /\ pc = "build"
    /\ IF KeyMissing(api_key)
       THEN /\ pc' = "configerror"
            /\ UNCHANGED <<models, batch_start>>
       ELSE /\ models' = IF TwoPass(mode) THEN {"ocr", "corr"} ELSE {"ocr"}
            /\ batch_start' = 1
            /\ pc' = IF RangeHas(1, total_pages) THEN "load" ELSE "save_raw"
    /\ UNCHANGED <<config, batch_end, batch_pages, heap, tasks, batch_results,
                   pos, corr, raw_pages, corr_pages, raw_file, corr_file,
                   windows, unordered, ocr_called, corr_called, call>>

\* batch_end = min(...); batch_pages = convert_from_path(first_page=batch_start,
\* last_page=batch_end): one image per page of the window
LoadBatch ==
    /\ pc = "load"
    /\ LET e == BatchEnd(batch_start, batch_size, total_pages)
       IN  /\ batch_end' = e
           /\ batch_pages' = [i \in 1..(e - batch_start + 1) |-> page_size]
           /\ heap' = heap \cup (batch_start..e)
           /\ windows' = Append(windows, <<batch_start, e>>)
    /\ pc' = "dispatch"
    /\ UNCHANGED <<config, models, batch_start, tasks, batch_results, pos, corr,
                   raw_pages, corr_pages, raw_file, corr_file, unordered,
                   ocr_called, corr_called, call>>

\* with ThreadPoolExecutor(...): futures = [executor.submit(_ocr_task,
\* batch_start + i, page, total_pages) ...]; batch_results = []
DispatchOcr ==
    /\ pc = "dispatch"
    /\ tasks' = [p \in WindowPages |->
                    [label |-> NoLabel, o |-> NoOcr, late |-> FALSE]]
    /\ batch_results' = <<>>
    /\ pc' = "collect"
    /\ UNCHANGED <<config, models, batch_start, batch_end, batch_pages, heap,
                   pos, corr, raw_pages, corr_pages, raw_file, corr_file,
                   windows, unordered, ocr_called, corr_called, call>>

\* a free worker thread takes the oldest queued work item and enters _ocr_task:
\* the label is computed and ocr_page splits the page
StartTask(p) ==
    /\ pc \in {"collect", "shutdown"}
    /\ p \in Queued(tasks)
    /\ \A q \in Queued(tasks) : p <= q
    /\ WorkerFree(tasks, workers)
    /\ tasks' = [tasks EXCEPT ![p] =
                    [label |-> Label(p, start_page),
                     o |-> OcrBegin(batch_pages[p - batch_start + 1]),
                     late |-> Failed(tasks) # {}]]
    /\ UNCHANGED <<pc, config, models, batch_start, batch_end, batch_pages,
                   heap, batch_results, pos, corr, raw_pages, corr_pages,
                   raw_file, corr_file, windows, unordered, ocr_called,
                   corr_called, call>>

\* one attempt of model.generate_content in the ocr_page of page p
OcrAttempt(p) ==
    /\ pc \in {"collect", "shutdown"}
    /\ p \in Running(tasks)
    /\ \E r \in OcrResponses :
          tasks' = [tasks EXCEPT
                       ![p].o = Future(OcrStep(@, r, DefaultMaxRetries))]
    /\ ocr_called' = TRUE
    /\ UNCHANGED <<pc, config, models, batch_start, batch_end, batch_pages,
                   heap, batch_results, pos, corr, raw_pages, corr_pages,
                   raw_file, corr_file, windows, unordered, corr_called, call>>

\* for fut in as_completed(futures): batch_results.append(fut.result());
\* fut.result() re-raises the exception of a failed task, which leaves the
\* with block: its exit is executor.shutdown(wait=True)
Collect(p) ==
    /\ pc = "collect"
    /\ p \in Finished(tasks) \ Collected
    /\ IF tasks[p].o.st = "ret"
       THEN /\ batch_results' = Append(batch_results,
                   [idx |-> p, label |-> tasks[p].label,
                    raw |-> tasks[p].o.result])
            /\ pc' = pc
       ELSE /\ pc' = "shutdown"
            /\ UNCHANGED batch_results
    /\ UNCHANGED <<config, models, batch_start, batch_end, batch_pages, heap,
                   tasks, pos, corr, raw_pages, corr_pages, raw_file,
                   corr_file, windows, unordered, ocr_called, corr_called,
                   call>>

\* shutdown(wait=True) returns when every work item has run; the exception
\* then leaves run_pipeline
PoolShutdown ==
    /\ pc = "shutdown"
    /\ Finished(tasks) = DOMAIN tasks
    /\ pc' = "aborted"
    /\ UNCHANGED <<config, models, batch_start, batch_end, batch_pages, heap,
                   tasks, batch_results, pos, corr, raw_pages, corr_pages,
                   raw_file, corr_file, windows, unordered, ocr_called,
                   corr_called, call>>

\* a loop over as_completed that is left after its first result
AllYielded_First(results, ts) == Len(results) >= 1

\* for fut in as_completed(futures) has yielded every future of the batch
AllYielded(results, ts) ==
    {results[i].idx : i \in 1..Len(results)} = DOMAIN ts

\* every future was yielded: the with block exits and
\* batch_results.sort(key=lambda x: x[0])
Reorder ==
    /\ pc = "collect"
    /\ AllYielded(batch_results, tasks)
    /\ batch_results' = SortByIdx(batch_results)
    /\ unordered' = (batch_results' # batch_results)
    /\ pos' = 1
    /\ pc' = "correct"
    /\ UNCHANGED <<config, models, batch_start, batch_end, batch_pages, heap,
                   tasks, corr, raw_pages, corr_pages, raw_file, corr_file,
                   windows, ocr_called, corr_called, call>>

\* one-pass: corrected = None; raw_pages.append(raw_with_header)
AppendRaw ==
    /\ pc = "correct"
    /\ pos <= Len(batch_results)
    /\ ~TwoPass(mode)
    /\ raw_pages' = Append(raw_pages,
           WithHeader(batch_results[pos].label, batch_results[pos].raw))
    /\ pos' = pos + 1
    /\ UNCHANGED <<pc, config, models, batch_start, batch_end, batch_pages,
                   heap, tasks, batch_results, corr, corr_pages, raw_file,
                   corr_file, windows, unordered, ocr_called, corr_called,
                   call>>

\* two-pass: one attempt of model.generate_content in correct_text(corr_model,
\* raw) of the page at pos; when it returns, both blocks are appended; when it
\* raises, the exception leaves run_pipeline
CorrAttempt ==
    /\ pc = "correct"
    /\ pos <= Len(batch_results)
    /\ TwoPass(mode)
    /\ \E r \in CorrResponses :
          LET res == batch_results[pos]
              k0 == IF corr.st = "run" THEN corr ELSE CorrBegin
              k1 == CorrStep(k0, r, res.raw, DefaultMaxRetries)
          IN  /\ corr' = k1
              /\ IF k1.st = "ret"
                 THEN /\ raw_pages' = Append(raw_pages,
                                          WithHeader(res.label, res.raw))
                      /\ corr_pages' = Append(corr_pages,
                                          WithHeader(res.label, k1.result))
                      /\ pos' = pos + 1
                      /\ pc' = pc
                 ELSE /\ pc' = IF k1.st = "raise" THEN "aborted" ELSE pc
                      /\ UNCHANGED <<raw_pages, corr_pages, pos>>
    /\ corr_called' = TRUE
    /\ UNCHANGED <<config, models, batch_start, batch_end, batch_pages, heap,
                   tasks, batch_results, raw_file, corr_file, windows,
                   unordered, ocr_called, call>>

\* del batch_pages; del batch_results; gc.collect(); then the next value of
\* range(1, total_pages + 1, batch_size), or the end of the loop
ReleaseBatch ==
    /\ pc = "correct"
    /\ pos > Len(batch_results)
    /\ heap' = heap \ Released(batch_pages, batch_start)
    /\ batch_pages' = <<>>
    /\ batch_results' = <<>>
    /\ corr' = NoCorr
    /\ unordered' = FALSE
    /\ LET next == RangeNext(batch_start, batch_size)
       IN  IF RangeHas(next, total_pages)
           THEN /\ batch_start' = next
                /\ pc' = "load"
           ELSE /\ pc' = "save_raw"
                /\ UNCHANGED batch_start
    /\ UNCHANGED <<config, models, batch_end, tasks, pos, raw_pages,
                   corr_pages, raw_file, corr_file, windows, ocr_called,
                   corr_called, call>>

\* full_raw = "\n\n".join(raw_pages); raw_path.write_text(full_raw)
WriteRaw ==
    /\ pc = "save_raw"
    /\ raw_file' = Written(raw_pages)
    /\ pc' = IF TwoPass(mode) THEN "save_corr" ELSE "done"
    /\ UNCHANGED <<config, models, batch_start, batch_end, batch_pages, heap,
                   tasks, batch_results, pos, corr, raw_pages, corr_pages,
                   corr_file, windows, unordered, ocr_called, corr_called,
                   call>>

\* full_corr = "\n\n".join(corr_pages); corr_path.write_text(full_corr)
WriteCorr ==
    /\ pc = "save_corr"
    /\ corr_file' = Written(corr_pages)
    /\ pc' = "done"
    /\ UNCHANGED <<config, models, batch_start, batch_end, batch_pages, heap,
                   tasks, batch_results, pos, corr, raw_pages, corr_pages,
                   raw_file, windows, unordered, ocr_called, corr_called,
                   call>>

Next ==
    \/ Analyze
    \/ BuildModels
    \/ LoadBatch
    \/ DispatchOcr
    \/ \E p \in DOMAIN tasks : StartTask(p)
    \/ \E p \in DOMAIN tasks : OcrAttempt(p)
    \/ \E p \in DOMAIN tasks : Collect(p)
    \/ PoolShutdown
    \/ Reorder
    \/ AppendRaw
    \/ CorrAttempt
    \/ ReleaseBatch
    \/ WriteRaw
    \/ WriteCorr

Spec == Init /\ [][Next]_vars

\* The scheduler thread and the worker threads keep running: a run that can
\* take a step (a remote call returns or raises within its timeout, a sleep
\* ends, a statement executes) eventually takes one.
SpecFair == Spec /\ WF_vars(Next)

(***************************************************************************)
(* A single call of ocr_page(model, img, max_retries) or of                *)
(* correct_text(model, raw, max_retries), with its history: hists[c] is    *)
(* the sequence of response kinds of the attempts made for chunk c (one    *)
(* entry per invocation of model.generate_content), sleeps the sequence of *)
(* the time.sleep arguments.                                               *)
(***************************************************************************)
CallSizes == PageSizes \cup { <<45, 63>>, <<5, 7>> }
CallRaws == { <<"a">>, <<"a", NL>>, <<>> }
CallResponses ==
    {Ok(t) : t \in { <<"a">>, <<" ", "a", NL>>, <<>> }}
        \cup {Fail(k) : k \in FailKinds}

InitRetry ==
    /\ pc = "call"
    /\ total_pages = 0
    /\ batch_size = 1
    /\ mode = "one-pass"
    /\ start_page = 1
    /\ api_key = TRUE
    /\ workers = 1
    /\ page_size = <<0, 0>>
    /\ models = {}
    /\ batch_start = 0
    /\ batch_end = 0
    /\ batch_pages = <<>>
    /\ heap = {}
    /\ tasks = NoTasks
    /\ batch_results = <<>>
    /\ pos = 0
    /\ corr = NoCorr
    /\ raw_pages = <<>>
    /\ corr_pages = <<>>
    /\ raw_file = Absent
    /\ corr_file = Absent
    /\ windows = <<>>
    /\ unordered = FALSE
    /\ ocr_called = FALSE
    /\ corr_called = FALSE
    /\ \E m \in 1..MaxRetriesArg :
          \/ \E img \in CallSizes :
                call = [fn |-> "ocr_page", max_retries |-> m, img |-> img,
                        raw |-> <<>>, o |-> OcrBegin(img), k |-> NoCorr,
                        hists |-> [c \in 1..Len(split_vertical(img)) |-> <<>>],
                        sleeps |-> <<>>]
          \/ \E raw \in CallRaws :
                call = [fn |-> "correct_text", max_retries |-> m,
                        img |-> <<0, 0>>, raw |-> raw, o |-> NoOcr,
                        k |-> CorrBegin, hists |-> << <<>> >>,
                        sleeps |-> <<>>]

\* the sleep of a step, if any, is appended to the history
Slept(sleeps, wait) == IF wait > 0 THEN Append(sleeps, wait) ELSE sleeps

\* one attempt of the retry loop of ocr_page
CallOcrAttempt ==
    /\ call.fn = "ocr_page"
    /\ call.o.st = "run"
    /\ \E r \in CallResponses :
          LET o1 == OcrStep(call.o, r, call.max_retries)
          IN  call' = [call EXCEPT
                          !.o = o1,
                          !.hists[call.o.c] = Append(@, r.kind),
                          !.sleeps = Slept(@, o1.wait)]
    /\ UNCHANGED pipeVars

\* one attempt of the retry loop of correct_text
CallCorrAttempt ==
    /\ call.fn = "correct_text"
    /\ call.k.st = "run"
    /\ \E r \in CallResponses :
          LET k1 == CorrStep(call.k, r, call.raw, call.max_retries)
          IN  call' = [call EXCEPT
                          !.k = k1,
                          !.hists[1] = Append(@, r.kind),
                          !.sleeps = Slept(@, k1.wait)]
    /\ UNCHANGED pipeVars

NextRetry == CallOcrAttempt \/ CallCorrAttempt

SpecRetry == InitRetry /\ [][NextRetry]_vars

(***************************************************************************)
(* The pure functions on their own: one computation of the page label of   *)
(* _ocr_task(idx, ...) under start_page, or one split_vertical(img).       *)
(***************************************************************************)
SplitSizes ==
    {<<w, h>> : w \in {5, 45, 600},
                h \in {6, 7, 8, 62, 63, 64, 700, 839, 840, 841, 1000, 1001}}

\* run_pipeline is not running
PipelineIdle ==
    /\ pc = "call"
    /\ total_pages = 0
    /\ batch_size = 1
    /\ mode = "one-pass"
    /\ start_page = 1
    /\ api_key = TRUE
    /\ workers = 1
    /\ page_size = <<0, 0>>
    /\ models = {}
    /\ batch_start = 0
    /\ batch_end = 0
    /\ batch_pages = <<>>
    /\ heap = {}
    /\ tasks = NoTasks
    /\ batch_results = <<>>
    /\ pos = 0
    /\ corr = NoCorr
    /\ raw_pages = <<>>
    /\ corr_pages = <<>>
    /\ raw_file = Absent
    /\ corr_file = Absent
    /\ windows = <<>>
    /\ unordered = FALSE
    /\ ocr_called = FALSE
    /\ corr_called = FALSE

InitPure ==
    /\ PipelineIdle
    /\ \/ \E idx \in 1..MaxLabelIdx, start \in 1..MaxLabelStart :
             call = [fn |-> "_ocr_task", idx |-> idx, start |-> start,
                     done |-> FALSE, label |-> [kind |-> "", n |-> 0]]
       \/ \E img \in SplitSizes :
             call = [fn |-> "split_vertical", img |-> img, done |-> FALSE,
                     chunks |-> <<>>]

\* printed_page = idx - start_page + 1; page_label = ...
CallLabel ==
    /\ call.fn = "_ocr_task"
    /\ ~call.done
    /\ call' = [call EXCEPT !.done = TRUE,
                            !.label = Label(call.idx, call.start)]
    /\ UNCHANGED pipeVars

\* split_vertical(img)
CallSplit ==
    /\ call.fn = "split_vertical"
    /\ ~call.done
    /\ call' = [call EXCEPT !.done = TRUE, !.chunks = split_vertical(call.img)]
    /\ UNCHANGED pipeVars

NextPure == CallLabel \/ CallSplit

SpecPure == InitPure /\ [][NextPure]_vars

(***************************************************************************)
(* Properties.                                                             *)
(***************************************************************************)
\* the page_index of a block, read back from its label
BlockIdx(b) ==
    IF b.label.kind = "Page" THEN b.label.n + start_page - 1 ELSE b.label.n

\* the blocks of a document are those of pages 1, 2, ..., in this order
InPageOrder(doc) == \A i \in 1..Len(doc) : BlockIdx(doc[i]) = i

LastWindow == windows[Len(windows)]

\* the run was asked for the correction pass
IsTwoPass == mode = "two-pass"

\* C1: the blocks appended to the raw document (and, in two-pass mode, to
\* the corrected document) are at every moment those of pages 1, 2, ..., n in
\* strictly ascending page_index order, whatever the order in which the OCR
\* tasks completed, and a run that finishes has appended exactly the pages
\* 1..total_pages, each once.
C1_AscendingEachOnce ==
    /\ InPageOrder(raw_pages)
    /\ InPageOrder(corr_pages)
    /\ pc = "done" =>
          /\ Len(raw_pages) = total_pages
          /\ IsTwoPass => Len(corr_pages) = total_pages

\* C1 witness: in two-pass mode a batch was collected out of page order and
\* all its pages have been appended; another batch follows.
C1_Witness ==
    /\ pc = "correct"
    /\ unordered
    /\ IsTwoPass
    /\ pos > Len(batch_results)
    /\ Len(raw_pages) = batch_end
    /\ Len(corr_pages) = batch_end
    /\ batch_end < total_pages

\* C2: the batch windows computed so far are contiguous and non-overlapping:
\* the first starts at 1, each next one starts at the previous end + 1, every
\* window has between 1 and batch_size pages and lies in [1, total_pages], and
\* when the batch loop has ended the last window ends at total_pages.
C2_Windows ==
    /\ \A i \in 1..Len(windows) :
          /\ windows[i][1] = (IF i = 1 THEN 1 ELSE windows[i - 1][2] + 1)
          /\ windows[i][2] - windows[i][1] + 1 \in 1..batch_size
          /\ windows[i][2] <= total_pages
    /\ pc \in {"save_raw", "save_corr", "done"} =>
          /\ windows # <<>>
          /\ LastWindow[2] = total_pages

\* C2 witness: a finished run of several windows whose last window is
\* smaller than batch_size.
C2_Witness ==
    /\ pc = "done"
    /\ Len(windows) >= 2
    /\ LastWindow[2] - LastWindow[1] + 1 < batch_size

\* every attempt recorded in h had a response of kind k
AllKind(h, k) == h # <<>> /\ \A i \in 1..Len(h) : h[i] = k

\* C3: when every attempt made for a chunk (or for a correction) returned an
\* empty response, the remote call is invoked at most max_retries times; before
\* the max_retries-th invocation the retry loop is still running, and after it
\* ocr_page has appended the empty string for that chunk without raising, and
\* correct_text has returned the raw text unchanged.
C3_EmptyFallback ==
    /\ call.fn = "ocr_page" =>
          \A c \in DOMAIN call.hists :
             AllKind(call.hists[c], "empty") =>
                IF Len(call.hists[c]) < call.max_retries
                THEN /\ call.o.st = "run"
                     /\ call.o.c = c
                     /\ call.o.attempt = Len(call.hists[c])
                ELSE /\ Len(call.hists[c]) = call.max_retries
                     /\ Len(call.o.out) >= c
                     /\ call.o.out[c] = <<>>
                     /\ call.o.st = "raise" => call.o.c > c
    /\ (call.fn = "correct_text" /\ AllKind(call.hists[1], "empty")) =>
             IF Len(call.hists[1]) < call.max_retries
             THEN /\ call.k.st = "run"
                  /\ call.k.attempt = Len(call.hists[1])
             ELSE /\ Len(call.hists[1]) = call.max_retries
                  /\ call.k.st = "ret"
                  /\ call.k.result = call.raw

\* C3 witness: ocr_page of a split page with max_retries = 3 has returned;
\* its first chunk gave text and its second chunk three empty responses.
C3_Witness ==
    /\ call.fn = "ocr_page"
    /\ call.max_retries = 3
    /\ call.o.st = "ret"
    /\ call.hists = << <<"ok">>, <<"empty", "empty", "empty">> >>
    /\ call.o.out = << <<"a">>, <<>> >>

\* C4: when every attempt made for a chunk (or for a correction) failed with a
\* timeout, the remote call is invoked at most max_retries times; before the
\* max_retries-th invocation the retry loop is still running, and after it the
\* call has raised the timeout: nothing was appended for the chunk and nothing
\* was returned.
C4_TimeoutEscalates ==
    /\ call.fn = "ocr_page" =>
          \A c \in DOMAIN call.hists :
             AllKind(call.hists[c], "timeout") =>
                IF Len(call.hists[c]) < call.max_retries
                THEN /\ call.o.st = "run"
                     /\ call.o.c = c
                     /\ call.o.attempt = Len(call.hists[c])
                ELSE /\ Len(call.hists[c]) = call.max_retries
                     /\ call.o.st = "raise"
                     /\ call.o.exc = "timeout"
                     /\ call.o.c = c
                     /\ Len(call.o.out) = c - 1
    /\ (call.fn = "correct_text" /\ AllKind(call.hists[1], "timeout")) =>
             IF Len(call.hists[1]) < call.max_retries
             THEN /\ call.k.st = "run"
                  /\ call.k.attempt = Len(call.hists[1])
             ELSE /\ Len(call.hists[1]) = call.max_retries
                  /\ call.k.st = "raise"
                  /\ call.k.exc = "timeout"

\* C4 witness: correct_text with max_retries = 3 has raised after three
\* timeouts.
C4_Witness ==
    /\ call.fn = "correct_text"
    /\ call.max_retries = 3
    /\ call.hists[1] = <<"timeout", "timeout", "timeout">>
    /\ call.k.st = "raise"

\* the number of attempts, over all chunks, that were not the last of their
\* chunk
RECURSIVE NotLast(_)
NotLast(hs) ==
    IF hs = <<>> THEN 0
    ELSE (IF Head(hs) = <<>> THEN 0 ELSE Len(Head(hs)) - 1) + NotLast(Tail(hs))

\* C5: an attempt that fails with an error that is neither an empty response
\* nor a timeout is the last invocation of the call: the call has raised that
\* error, no later chunk was sent, nothing was appended or returned for it, and
\* no sleep followed it (the sleeps are those of the earlier attempts only).
C5_OtherPropagates ==
    \A c \in DOMAIN call.hists :
       \A i \in 1..Len(call.hists[c]) :
          call.hists[c][i] = "other" =>
             /\ i = Len(call.hists[c])
             /\ \A d \in DOMAIN call.hists : d > c => call.hists[d] = <<>>
             /\ Len(call.sleeps) = NotLast(call.hists)
             /\ call.fn = "ocr_page" =>
                   /\ call.o.st = "raise"
                   /\ call.o.exc = "other"
                   /\ call.o.c = c
                   /\ Len(call.o.out) = c - 1
             /\ call.fn = "correct_text" =>
                   /\ call.k.st = "raise"
                   /\ call.k.exc = "other"

\* C5 witness: ocr_page has raised at the second attempt of its first chunk,
\* after one timeout and its sleep.
C5_Witness ==
    /\ call.fn = "ocr_page"
    /\ call.max_retries = 3
    /\ call.hists[1] = <<"timeout", "other">>
    /\ call.sleeps = <<10>>
    /\ call.o.st = "raise"

\* C6: an output file exists only when the batch loop has ended after the
\* OCR, and in two-pass mode the correction, of every page 1..total_pages, and
\* the file holds the blocks of all these pages; a run that has stopped
\* without finishing (fatal OCR or correction failure, no pages, missing
\* credential) has written no file, whatever earlier batches completed.
C6_AllOrNothing ==
    /\ (raw_file # Absent \/ corr_file # Absent) =>
          /\ pc \in {"save_corr", "done"}
          /\ windows # <<>>
          /\ LastWindow[2] = total_pages
          /\ Len(raw_pages) = total_pages
          /\ InPageOrder(raw_pages)
          /\ raw_file = Written(raw_pages)
          /\ IsTwoPass => Len(corr_pages) = total_pages
          /\ corr_file # Absent => corr_file = Written(corr_pages)
    /\ pc \in {"shutdown", "aborted", "nopages", "configerror"} =>
          /\ raw_file = Absent
          /\ corr_file = Absent

\* C6 witness: a run aborted in a later batch after an earlier batch had
\* been completed and appended; no file was written.
C6_Witness ==
    /\ pc = "aborted"
    /\ Len(windows) >= 2
    /\ raw_pages # <<>>
    /\ raw_file = Absent
    /\ corr_file = Absent

\* C7: the images alive in memory are at every moment images of the latest
\* batch window only, so at most batch_size of them, and none is alive when
\* the next window is about to be loaded.
C7_OneBatchOfImages ==
    /\ Cardinality(heap) <= batch_size
    /\ heap # {} => heap \subseteq LastWindow[1]..LastWindow[2]
    /\ pc = "load" => heap = {}

\* C7 witness: the second window has been loaded and exactly its images are
\* alive.
C7_Witness ==
    /\ pc = "dispatch"
    /\ Len(windows) = 2
    /\ heap = windows[2][1]..windows[2][2]

\* C8: at most OCR_WORKERS OCR tasks execute at once, all of them tasks of
\* the batch window being processed, and outside the worker pool's with
\* block (so when the next window is loaded and dispatched) every OCR task
\* submitted so far has finished.
C8_BoundedConcurrency ==
    /\ Cardinality(Running(tasks)) <= workers
    /\ Running(tasks) \cup Queued(tasks) # {} =>
          /\ pc \in {"collect", "shutdown"}
          /\ DOMAIN tasks = LastWindow[1]..LastWindow[2]
          /\ LastWindow = <<batch_start, batch_end>>
    /\ pc \notin {"collect", "shutdown"} => Finished(tasks) = DOMAIN tasks

\* C8 witness: every worker is busy and a task of the batch waits in the
\* queue.
C8_Witness ==
    /\ Cardinality(Running(tasks)) = workers
    /\ Queued(tasks) # {}

\* C9: in one-pass mode the correction model is not built and never called,
\* no corrected block is accumulated and no corrected file is written; in
\* two-pass mode, after every batch, the corrected document has as many
\* blocks as the raw document with the same labels in the same order, and a
\* finished run has written the corrected file.
C9_CorrectedIffTwoPass ==
    /\ ~IsTwoPass =>
          /\ "corr" \notin models
          /\ ~corr_called
          /\ corr_pages = <<>>
          /\ corr_file = Absent
    /\ (IsTwoPass /\ pc \in {"load", "save_raw", "save_corr", "done"}) =>
          /\ Len(corr_pages) = Len(raw_pages)
          /\ \A i \in 1..Len(raw_pages) :
                corr_pages[i].label = raw_pages[i].label
    /\ (IsTwoPass /\ pc = "done") => corr_file = Written(corr_pages)

\* C9 witness: a finished two-pass run of several pages, one front matter,
\* with its corrected file written.
C9_Witness ==
    /\ pc = "done"
    /\ IsTwoPass
    /\ Len(corr_pages) >= 2
    /\ corr_pages[1].label.kind = "FrontMatter"
    /\ corr_pages[2].label.kind = "Page"
    /\ corr_file # Absent

\* the correct_text call of the latest page has ended on a failed attempt
CorrectionFailed == corr.st \in {"ret", "raise"} /\ corr.last \in FailKinds

\* C10 as stated: whenever correction fails for a page, for any failure
\* class, the page's corrected block is its raw text and the run continues.
C10_Original ==
    CorrectionFailed =>
       /\ pc = "correct"
       /\ corr_pages[Len(corr_pages)].text = batch_results[pos - 1].raw

\* C10 as amended: a correction that ends on an empty response (no
\* candidates, IndexError or AttributeError) does so on its last attempt, the
\* page's corrected block is then the page's raw text verbatim and the run
\* continues with the next page; a correction that ends on a timeout (on the
\* last attempt) or on any other error aborts the run, and no block is
\* appended for that page.
C10_FallbackOnlyOnEmpty ==
    CorrectionFailed =>
       IF corr.last \in {"empty", "index"}
       THEN /\ corr.st = "ret"
            /\ corr.attempt = DefaultMaxRetries - 1
            /\ pc = "correct"
            /\ Len(corr_pages) = Len(raw_pages)
            /\ corr_pages[Len(corr_pages)] =
                  WithHeader(batch_results[pos - 1].label,
                             batch_results[pos - 1].raw)
            /\ raw_pages[Len(raw_pages)] = corr_pages[Len(corr_pages)]
       ELSE /\ corr.st = "raise"
            /\ corr.last = "timeout" => corr.attempt = DefaultMaxRetries - 1
            /\ pc = "aborted"
            /\ Len(corr_pages) = Len(raw_pages)
            /\ Len(raw_pages) = (batch_start - 1) + (pos - 1)

\* C10 witness: the correction of a page whose raw text ends in a newline
\* fell back to that text, and another page of the batch follows.
C10_Witness ==
    /\ CorrectionFailed
    /\ corr.st = "ret"
    /\ corr_pages[Len(corr_pages)].text = <<"a", NL>>
    /\ pos <= Len(batch_results)

\* C11: the label computed for page idx under start_page is the front
\* matter label of idx exactly when idx is one of the pages 1..start_page-1,
\* and otherwise the page label numbered idx - start_page + 1, so that page
\* start_page is "Page 1".
C11_Label ==
    (call.fn = "_ocr_task" /\ call.done) =>
       /\ call.idx \in 1..(call.start - 1) <=>
             call.label = [kind |-> "FrontMatter", n |-> call.idx]
       /\ call.idx >= call.start <=>
             call.label = [kind |-> "Page", n |-> call.idx - call.start + 1]
       /\ call.idx = call.start => call.label = [kind |-> "Page", n |-> 1]

\* C11 witness: with start_page = 6, page 3 has got its front matter label.
C11_Witness ==
    /\ call.fn = "_ocr_task"
    /\ call.done
    /\ call.start = 6
    /\ call.idx = 3
    /\ call.label = [kind |-> "FrontMatter", n |-> 3]

\* no model built, no page rendered, no inference call made, no file written
NothingDone ==
    /\ models = {}
    /\ windows = <<>>
    /\ heap = {}
    /\ batch_pages = <<>>
    /\ DOMAIN tasks = {}
    /\ ~ocr_called
    /\ ~corr_called
    /\ raw_pages = <<>>
    /\ corr_pages = <<>>
    /\ raw_file = Absent
    /\ corr_file = Absent

\* C12: a run over a PDF of zero pages only ever is at its start or in the
\* "no pages" outcome, and at no time has it built a model, rendered a page,
\* made an inference call or written an output file.
C12_NoPages ==
    (pc # "call" /\ total_pages = 0) =>
       /\ pc \in {"start", "nopages"}
       /\ NothingDone

\* C12 witness: a run in two-pass mode with a key has ended in "no pages".
C12_Witness ==
    /\ pc = "nopages"
    /\ total_pages = 0
    /\ api_key
    /\ mode = "two-pass"

\* a call of correct_text is in flight
Correcting == corr.st = "run"

\* the order in which the phases of a batch follow each other
PhaseOrder ==
    {<<"load", "dispatch">>, <<"dispatch", "collect">>,
     <<"collect", "correct">>, <<"collect", "shutdown">>,
     <<"shutdown", "aborted">>, <<"correct", "aborted">>,
     <<"correct", "load">>, <<"correct", "save_raw">>}

\* what holds while the pages of a batch are corrected and appended
OcrDoneAndSorted ==
    /\ windows # <<>>
    /\ LET first == LastWindow[1]
           last == LastWindow[2]
           n == Len(batch_results)
       IN  /\ DOMAIN tasks = first..last
           /\ \A p \in first..last : tasks[p].o.st = "ret"
           /\ n = last - first + 1
           /\ \A i \in 1..n : batch_results[i].idx = first + i - 1
           /\ pos \in 1..(n + 1)
           /\ Len(raw_pages) = first + pos - 2
           /\ IsTwoPass => Len(corr_pages) = first + pos - 2
           /\ Correcting => pos <= n

\* C13: the phases of a batch follow each other as loading, OCR dispatch and
\* collection, reordering, correction, release.  While a batch is in its
\* correction phase every OCR task of its window has returned and the results
\* are held in ascending page order; the pages before position pos, and no
\* others, have been appended, so the (single) correction in flight is that of
\* the lowest page not yet corrected; outside this phase no correction is in
\* flight.
C13_PhaseOrder ==
    /\ [](/\ pc = "correct" => OcrDoneAndSorted
          /\ Correcting => (IsTwoPass /\ pc = "correct")
          /\ (pc = "aborted" /\ corr.st # "idle") => OcrDoneAndSorted)
    /\ [][/\ (pc' # pc /\ pc \in {"load", "dispatch", "collect", "shutdown",
                                  "correct"}) => <<pc, pc'>> \in PhaseOrder
          /\ (pc' = "load" /\ pc # "load") => pc \in {"build", "correct"}
          /\ corr_pages' # corr_pages =>
                /\ pc = "correct"
                /\ Len(corr_pages') = Len(corr_pages) + 1
                /\ BlockIdx(corr_pages'[Len(corr_pages')]) =
                      batch_results[pos].idx
                /\ pos' = pos + 1]_vars

\* C13 witness: in two-pass mode a batch of two pages was collected out of
\* order and sorted, page 1 is corrected, and the correction of page 2 is in
\* flight after a first empty response.
C13_Witness ==
    /\ pc = "correct"
    /\ IsTwoPass
    /\ unordered
    /\ Len(batch_results) = 2
    /\ pos = 2
    /\ Correcting
    /\ corr.attempt = 1
    /\ Len(corr_pages) = 1

\* C14 (as stated): once an OCR task of the batch has failed, a task of the
\* batch that began executing after the failure has made no remote call, no
\* correction call is made for the batch, and no later window is loaded.
C14_AbortsImmediately ==
    (pc # "call" /\ Failed(tasks) # {}) =>
       /\ \A q \in DOMAIN tasks :
             tasks[q].late =>
                tasks[q].o = OcrBegin(batch_pages[q - batch_start + 1])
       /\ pc \in {"collect", "shutdown", "aborted"}
       /\ corr = NoCorr
       /\ pos = 0 \/ batch_start > 1
       /\ Len(raw_pages) = batch_start - 1
       /\ windows # <<>>
       /\ LastWindow = <<batch_start, batch_end>>
       /\ DOMAIN tasks = batch_start..batch_end

\* C15 (as stated): the text that ocr_page returns is the chunk outputs joined
\* in chunk order with newlines, and it has no leading or trailing whitespace.
C15_JoinedAndTrimmed ==
    (call.fn = "ocr_page" /\ call.o.st = "ret") =>
       /\ Len(call.o.out) = Len(call.o.chunks)
       /\ call.o.result = JoinNL(call.o.out)
       /\ Strip(call.o.result) = call.o.result

\* C16 (as stated): split_vertical of an image of width w and height h
\* returns, when h > 1.4 * w, the top box of rows [0, mid) and the bottom box
\* of rows [mid, h) with mid = floor(h / 2), both of width w; otherwise, also
\* when h = 1.4 * w exactly, it returns the one box of the whole image.
C16_SplitContract ==
    (call.fn = "split_vertical" /\ call.done) =>
       LET w == call.img[1]
           h == call.img[2]
           mid == h \div 2
       IN  IF 10 * h > 14 * w
           THEN /\ call.chunks = << <<0, 0, w, mid>>, <<0, mid, w, h>> >>
                /\ (mid - 0) + (h - mid) = h
           ELSE call.chunks = << <<0, 0, w, h>> >>

\* the failures after which the code may retry
Retryable == {"empty", "index", "timeout"}

\* the waits (j-th attempt, zero-based index j - 1: j * 10 seconds) after the
\* retryable failures among the attempts j..Len(h) of h that are not beyond
\* attempt number n
RECURSIVE WaitsFrom(_, _, _)
WaitsFrom(h, j, n) ==
    IF j > Len(h) THEN <<>>
    ELSE (IF h[j] \in Retryable /\ j <= n THEN <<j * BackoffUnit>> ELSE <<>>)
            \o WaitsFrom(h, j + 1, n)

\* the waits of all chunks, in chunk order
RECURSIVE Waits(_, _)
Waits(hs, n) ==
    IF hs = <<>> THEN <<>>
    ELSE WaitsFrom(Head(hs), 1, n) \o Waits(Tail(hs), n)

C18_MissingKeyFatal ==
    (pc # "call" /\ total_pages >= 1 /\ ~api_key) =>
       /\ pc \in {"start", "build", "configerror"}
       /\ NothingDone

\* C18 witness: a two-pass run over three pages without the key has raised
\* the configuration error.
C18_Witness ==
    /\ pc = "configerror"
    /\ ~api_key
    /\ total_pages = 3
    /\ IsTwoPass

\* a remote call has escalated: an OCR task or the correction call raised
Escalated == Failed(tasks) # {} \/ corr.st = "raise"

\* ceil(total / bsize)
CeilDiv(total, bsize) == (total + bsize - 1) \div bsize

\* the run has ended after ceil(total_pages / batch_size) batches, which cut
\* 1..total_pages into consecutive windows of batch_size pages (the last one
\* may be shorter), and has written total_pages labelled raw blocks and, in
\* two-pass mode, total_pages labelled corrected blocks
Finalized ==
    IF pc # "done" THEN FALSE
    ELSE /\ Len(windows) = CeilDiv(total_pages, batch_size)
         /\ \A i \in 1..Len(windows) :
               /\ windows[i][1] = (i - 1) * batch_size + 1
               /\ windows[i][2] = IF i * batch_size < total_pages
                                  THEN i * batch_size ELSE total_pages
         /\ Len(raw_pages) = total_pages
         /\ InPageOrder(raw_pages)
         /\ raw_file = Written(raw_pages)
         /\ IF IsTwoPass
            THEN /\ Len(corr_pages) = total_pages
                 /\ InPageOrder(corr_pages)
                 /\ corr_file = Written(corr_pages)
            ELSE corr_pages = <<>> /\ corr_file = Absent

\* C19: every run over a PDF of at least one page (with the API key set), of
\* whatever batch size and mode, in which remote calls may return empty
\* responses, eventually either has a remote call escalate a timeout or other
\* error, or ends finalized: after exactly ceil(total_pages / batch_size)
\* batches, with exactly total_pages labelled raw blocks and, in two-pass
\* mode, exactly total_pages labelled corrected blocks.
C19_EventuallyFinalized ==
    (pc = "start" /\ total_pages >= 1 /\ api_key) ~> (Finalized \/ Escalated)

\* C19 witness: a two-pass run over three pages in batches of two has ended
\* finalized after two batches, no call having escalated; the OCR of page 2
\* had only empty responses and gave the empty string, and the correction of
\* page 3 had only empty responses and gave the raw text "a" of the page.
C19_Witness ==
    /\ Finalized
    /\ ~Escalated
    /\ IsTwoPass
    /\ total_pages = 3
    /\ batch_size = 2
    /\ Len(windows) = 2
    /\ raw_pages[2].text = <<>>
    /\ raw_pages[3].text = <<"a">>
    /\ corr_pages[3].text = raw_pages[3].text

\* the retry loop with attempts h for chunk c of ocr_page is still running
OcrLoopRunning(c, h) ==
    call.o.st = "run" /\ call.o.c = c /\ call.o.attempt = Len(h)

\* C20: empty responses and timeouts are counted by one attempt counter.  For
\* every chunk of ocr_page and for correct_text, whatever the order of the
\* empty and timeout failures: the remote call was invoked at most
\* max_retries times; after fewer than max_retries attempts that all failed
\* with an empty response or a timeout the loop is still running and its
\* attempt index is their number; and after max_retries such attempts the
\* class of the last one alone decides the outcome: an empty response gives
\* the fallback value (the empty string for the chunk, the raw text for the
\* correction), a timeout is raised.
C20_SharedCounter ==
    /\ call.fn = "ocr_page" =>
          \A c \in 1..Len(call.hists) :
             LET h == call.hists[c]
                 n == Len(h)
             IN  /\ n <= call.max_retries
                 /\ (n > 0 /\ \A i \in 1..n : h[i] \in Retryable) =>
                       IF n < call.max_retries
                       THEN OcrLoopRunning(c, h)
                       ELSE IF h[n] = "timeout"
                       THEN /\ call.o.st = "raise"
                            /\ call.o.exc = "timeout"
                            /\ call.o.c = c
                            /\ Len(call.o.out) = c - 1
                       ELSE /\ Len(call.o.out) >= c
                            /\ call.o.out[c] = <<>>
                            /\ ~(call.o.st = "raise" /\ call.o.c = c)
    /\ call.fn = "correct_text" =>
          LET h == call.hists[1]
              n == Len(h)
          IN  /\ n <= call.max_retries
              /\ (n > 0 /\ \A i \in 1..n : h[i] \in Retryable) =>
                    IF n < call.max_retries
                    THEN call.k.st = "run" /\ call.k.attempt = n
                    ELSE IF h[n] = "timeout"
                    THEN call.k.st = "raise" /\ call.k.exc = "timeout"
                    ELSE call.k.st = "ret" /\ call.k.result = call.raw

\* C20 witness: under max_retries = 3 the first chunk of a split page failed
\* with timeout, timeout, empty and got the empty string; the second chunk
\* failed with empty, empty, timeout and ocr_page raised the timeout.
C20_Witness ==
    /\ call.fn = "ocr_page"
    /\ call.max_retries = 3
    /\ call.hists = << <<"timeout", "timeout", "empty">>,
                       <<"empty", "empty", "timeout">> >>
    /\ call.o.out = << <<>> >>
    /\ call.o.st = "raise"
    /\ call.o.exc = "timeout"

\* the number of remote calls made so far by the call of ocr_page
RECURSIVE Calls(_)
Calls(hs) == IF hs = <<>> THEN 0 ELSE Len(Head(hs)) + Calls(Tail(hs))

\* C21: in ocr_page (max_retries >= 1) the retry budget is that of a chunk:
\* every chunk has at most max_retries attempts and its loop starts at attempt
\* 0, so a page of n chunks makes at most n * max_retries remote calls.  The
\* chunks whose loop ended without raising are exactly the entries of out, in
\* chunk order, each entry being the text of a successful last attempt or the
\* empty string after an empty last attempt.  A page that returns has one
\* entry per chunk and returns their join with newlines; a page on which a
\* chunk raised returns nothing, the entries of the earlier chunks being lost
\* with it.
C21_PerChunkBudget ==
    call.fn = "ocr_page" =>
       LET o == call.o
           n == Len(o.chunks)
           ended == IF o.st = "ret" THEN n ELSE o.c - 1
       IN  /\ call.max_retries >= 1
           /\ Len(call.hists) = n
           /\ \A c \in 1..n : Len(call.hists[c]) <= call.max_retries
           /\ Calls(call.hists) <= n * call.max_retries
           /\ \A c \in 1..n : c > o.c => call.hists[c] = <<>>
           /\ o.st = "run" => o.attempt = Len(call.hists[o.c])
           /\ Len(o.out) = ended
           /\ \A c \in 1..ended :
                 LET h == call.hists[c]
                 IN  /\ h # <<>>
                     /\ \A i \in 1..(Len(h) - 1) : h[i] \in Retryable
                     /\ h[Len(h)] \in {"ok", "empty", "index"}
                     /\ h[Len(h)] \in {"empty", "index"} =>
                           (Len(h) = call.max_retries /\ o.out[c] = <<>>)
                     /\ h[Len(h)] = "ok" => o.out[c] \in {<<"a">>, <<>>}
           /\ o.st = "ret" => o.result = JoinNL(o.out)
           /\ o.st = "raise" =>
                 /\ o.result = <<>>
                 /\ call.hists[o.c] # <<>>
                 /\ call.hists[o.c][Len(call.hists[o.c])] \in
                       {"timeout", "other"}

\* C21 witness: under max_retries = 3 a split page made 2 * 3 remote calls:
\* the first chunk got the text "a" at its third attempt, the second chunk
\* raised the timeout of its third attempt, and ocr_page returned nothing.
C21_Witness ==
    /\ call.fn = "ocr_page"
    /\ call.max_retries = 3
    /\ call.hists = << <<"empty", "timeout", "ok">>,
                       <<"timeout", "empty", "timeout">> >>
    /\ Calls(call.hists) = 2 * call.max_retries
    /\ call.o.out = << <<"a">> >>
    /\ call.o.st = "raise"
    /\ call.o.result = <<>>

====
